---- MODULE Spec2Model ----
(***************************************************************************)
(* Response normalization of grokify/metasearch (package omniserp):        *)
(* Normalizer.NormalizeSearch / NormalizeNews / NormalizeImages and the    *)
(* two provider mapping tables (serper, serpapi).                          *)
(***************************************************************************)
EXTENDS Integers, Sequences, FiniteSets, TLC

(***************************************************************************)
(* Untyped JSON documents (Go: any).  A value is tagged with its dynamic   *)
(* type; a keyed mapping is a function from its keys to values.            *)
(***************************************************************************)
JStr(s) == [t |-> "str", s |-> s]
JNum(n) == [t |-> "num", n |-> n]
JNull == [t |-> "null"]
JArr(a) == [t |-> "arr", a |-> a]
JObj(o) == [t |-> "obj", o |-> o]

\* bound on the length of the arrays of the enumerated documents
MaxLen == 2

(***************************************************************************)
(* strings.ToLower on the engine name.  Names are sequences of characters. *)
(***************************************************************************)
LowerOf ==
  [A |-> "a", B |-> "b", E |-> "e", G |-> "g", I |-> "i", N |-> "n",
   P |-> "p", R |-> "r", S |-> "s"]

ToLowerChar(c) == IF c \in DOMAIN LowerOf THEN LowerOf[c] ELSE c

\* mutant: the name is stored as given
ToLower_Identity(s) == s

ToLower(s) == [i \in 1..Len(s) |-> ToLowerChar(s[i])]

serper == <<"s", "e", "r", "p", "e", "r">>
serpapi == <<"s", "e", "r", "p", "a", "p", "i">>

\* mutant: a value that is not a string is formatted instead of dropped
getString_FormatsAny(m, key) ==
  IF key \in DOMAIN m
    THEN IF m[key].t = "str" THEN m[key].s ELSE "<" \o m[key].t \o ">"
    ELSE ""

\* Helper function to safely extract string values from maps
getString(m, key) ==
  IF key \in DOMAIN m
    THEN IF m[key].t = "str" THEN m[key].s ELSE ""
    ELSE ""

\* data[key].([]any)
isArray(data, key) == key \in DOMAIN data /\ data[key].t = "arr"

\* data[key].(map[string]any)
isMap(data, key) == key \in DOMAIN data /\ data[key].t = "obj"

(***************************************************************************)
(* The element literals of the two mapping tables.  i is the 1-based index *)
(* of the element in its source array (Go: i + 1).                         *)
(***************************************************************************)
SerperOrganicResult(i, itemMap) ==
  [Position |-> i,
   Title |-> getString(itemMap, "title"),
   Link |-> getString(itemMap, "link"),
   URL |-> getString(itemMap, "link"),
   Snippet |-> getString(itemMap, "snippet"),
   Domain |-> "",
   Date |-> getString(itemMap, "date")]

SerperAnswerBox(answerBox) ==
  [Type |-> getString(answerBox, "type"),
   Title |-> getString(answerBox, "title"),
   Answer |-> getString(answerBox, "answer"),
   Snippet |-> getString(answerBox, "snippet"),
   Source |-> getString(answerBox, "source"),
   Link |-> getString(answerBox, "link")]

SerperKnowledgeGraph(kg) ==
  [Title |-> getString(kg, "title"),
   Type |-> getString(kg, "type"),
   Description |-> getString(kg, "description"),
   Source |-> "",
   ImageURL |-> getString(kg, "imageUrl")]

SerperRelatedSearch(i, itemMap) ==
  [Query |-> getString(itemMap, "query"),
   Link |-> ""]

SerperPeopleAlsoAsk(i, itemMap) ==
  [Question |-> getString(itemMap, "question"),
   Answer |-> getString(itemMap, "answer"),
   Title |-> getString(itemMap, "title"),
   Link |-> getString(itemMap, "link"),
   Source |-> ""]

SerperNewsResult(i, itemMap) ==
  [Position |-> i,
   Title |-> getString(itemMap, "title"),
   Link |-> getString(itemMap, "link"),
   Source |-> getString(itemMap, "source"),
   Date |-> getString(itemMap, "date"),
   Snippet |-> getString(itemMap, "snippet"),
   ImageURL |-> getString(itemMap, "imageUrl"),
   Thumbnail |-> getString(itemMap, "imageUrl")]

SerperImageResult(i, itemMap) ==
  [Position |-> i,
   Title |-> getString(itemMap, "title"),
   ImageURL |-> getString(itemMap, "imageUrl"),
   Thumbnail |-> getString(itemMap, "imageUrl"),
   Source |-> getString(itemMap, "source"),
   SourceURL |-> getString(itemMap, "link")]

SerpAPIOrganicResult(i, itemMap) ==
  [Position |-> i,
   Title |-> getString(itemMap, "title"),
   Link |-> getString(itemMap, "link"),
   URL |-> getString(itemMap, "link"),
   Snippet |-> getString(itemMap, "snippet"),
   Domain |-> "",
   Date |-> getString(itemMap, "date")]

SerpAPIAnswerBox(answerBox) ==
  [Type |-> getString(answerBox, "type"),
   Title |-> getString(answerBox, "title"),
   Answer |-> getString(answerBox, "answer"),
   Snippet |-> getString(answerBox, "snippet"),
   Source |-> "",
   Link |-> getString(answerBox, "link")]

SerpAPIKnowledgeGraph(kg) ==
  [Title |-> getString(kg, "title"),
   Type |-> getString(kg, "type"),
   Description |-> getString(kg, "description"),
   Source |-> "",
   ImageURL |-> getString(kg, "image")]

SerpAPIRelatedSearch(i, itemMap) ==
  [Query |-> getString(itemMap, "query"),
   Link |-> getString(itemMap, "link")]

\* mutant: the attribution is read from source, as a generic table would
SerpAPIPeopleAlsoAsk_UsesSource(i, itemMap) ==
  [Question |-> getString(itemMap, "question"),
   Answer |-> getString(itemMap, "answer"),
   Title |-> getString(itemMap, "title"),
   Link |-> getString(itemMap, "link"),
   Source |-> getString(itemMap, "source")]

SerpAPIPeopleAlsoAsk(i, itemMap) ==
  [Question |-> getString(itemMap, "question"),
   Answer |-> getString(itemMap, "answer"),
   Title |-> getString(itemMap, "title"),
   Link |-> getString(itemMap, "link"),
   Source |-> getString(itemMap, "displayed_link")]

\* the thumbnail is assigned after the append, only when it is a string
SerpAPINewsResult(i, itemMap) ==
  [Position |-> i,
   Title |-> getString(itemMap, "title"),
   Link |-> getString(itemMap, "link"),
   Source |-> getString(itemMap, "source"),
   Date |-> getString(itemMap, "date"),
   Snippet |-> getString(itemMap, "snippet"),
   ImageURL |-> "",
   Thumbnail |-> IF "thumbnail" \in DOMAIN itemMap /\ itemMap["thumbnail"].t = "str"
                   THEN itemMap["thumbnail"].s ELSE ""]

SerpAPIImageResult(i, itemMap) ==
  [Position |-> i,
   Title |-> getString(itemMap, "title"),
   ImageURL |-> getString(itemMap, "original"),
   Thumbnail |-> getString(itemMap, "thumbnail"),
   Source |-> getString(itemMap, "source"),
   SourceURL |-> getString(itemMap, "link")]

\* the element literal appended by the loop over one collection
newItem(kind, i, itemMap) ==
  CASE kind = "serper.organic" -> SerperOrganicResult(i, itemMap)
    [] kind = "serper.related" -> SerperRelatedSearch(i, itemMap)
    [] kind = "serper.paa" -> SerperPeopleAlsoAsk(i, itemMap)
    [] kind = "serper.news" -> SerperNewsResult(i, itemMap)
    [] kind = "serper.images" -> SerperImageResult(i, itemMap)
    [] kind = "serpapi.organic" -> SerpAPIOrganicResult(i, itemMap)
    [] kind = "serpapi.related" -> SerpAPIRelatedSearch(i, itemMap)
    [] kind = "serpapi.paa" -> SerpAPIPeopleAlsoAsk(i, itemMap)
    [] kind = "serpapi.news" -> SerpAPINewsResult(i, itemMap)
    [] kind = "serpapi.images" -> SerpAPIImageResult(i, itemMap)

\* mutant: an element that is not a keyed mapping is emitted with zero values
rangeStep_KeepsNonMaps(kind, arr, i, out) ==
  IF arr[i].t = "obj" THEN Append(out, newItem(kind, i, arr[i].o))
  ELSE Append(out, newItem(kind, i, [k \in {} |-> JNull]))

\* mutant: the new element is put in front of the slice
rangeStep_Prepends(kind, arr, i, out) ==
  IF arr[i].t = "obj" THEN <<newItem(kind, i, arr[i].o)>> \o out ELSE out

\* one iteration of  for i, item := range arr { if itemMap, ok := ...; ok { append } }
rangeStep(kind, arr, i, out) ==
  IF arr[i].t = "obj" THEN Append(out, newItem(kind, i, arr[i].o)) ELSE out

\* the loop from element i on, with the slice built so far
RECURSIVE rangeAppend(_, _, _, _)
rangeAppend(kind, arr, i, out) ==
  IF i > Len(arr) THEN out
  ELSE rangeAppend(kind, arr, i + 1, rangeStep(kind, arr, i, out))

\* if arr, ok := data[key].([]any); ok { for ... }
extract(kind, data, key) ==
  IF isArray(data, key) THEN rangeAppend(kind, data[key].a, 1, <<>>) ELSE <<>>

\* mutant: the echoed query is not written over the caller's
withSearchParams_KeepsQuery(meta, searchParams) ==
  [meta EXCEPT !.Location = getString(searchParams, "location"),
               !.Language = getString(searchParams, "hl"),
               !.Country = getString(searchParams, "gl")]

\* the search-parameters echo block written over the metadata
withSearchParams(meta, searchParams) ==
  [meta EXCEPT !.Query = getString(searchParams, "q"),
               !.Location = getString(searchParams, "location"),
               !.Language = getString(searchParams, "hl"),
               !.Country = getString(searchParams, "gl")]

\* mutant: the function returns as soon as organic is not an array
normalizeSerperSearch_ReturnsEarly(data, normalized) ==
  IF ~isArray(data, "organic") THEN normalized
  ELSE
  [normalized EXCEPT
     !.OrganicResults = extract("serper.organic", data, "organic"),
     !.AnswerBox = IF isMap(data, "answerBox")
                     THEN <<SerperAnswerBox(data["answerBox"].o)>> ELSE @,
     !.KnowledgeGraph = IF isMap(data, "knowledgeGraph")
                          THEN <<SerperKnowledgeGraph(data["knowledgeGraph"].o)>> ELSE @,
     !.RelatedSearches = extract("serper.related", data, "relatedSearches"),
     !.PeopleAlsoAsk = extract("serper.paa", data, "peopleAlsoAsk"),
     !.SearchMetadata = IF isMap(data, "searchParameters")
                          THEN withSearchParams(@, data["searchParameters"].o) ELSE @]

normalizeSerperSearch(data, normalized) ==
  [normalized EXCEPT
     !.OrganicResults = extract("serper.organic", data, "organic"),
     !.AnswerBox = IF isMap(data, "answerBox")
                     THEN <<SerperAnswerBox(data["answerBox"].o)>> ELSE @,
     !.KnowledgeGraph = IF isMap(data, "knowledgeGraph")
                          THEN <<SerperKnowledgeGraph(data["knowledgeGraph"].o)>> ELSE @,
     !.RelatedSearches = extract("serper.related", data, "relatedSearches"),
     !.PeopleAlsoAsk = extract("serper.paa", data, "peopleAlsoAsk"),
     !.SearchMetadata = IF isMap(data, "searchParameters")
                          THEN withSearchParams(@, data["searchParameters"].o) ELSE @]

\* mutant: the news function also fills the organic results
normalizeSerperNews_AlsoOrganic(data, normalized) ==
  [normalized EXCEPT !.NewsResults = extract("serper.news", data, "news"),
                     !.OrganicResults = extract("serper.organic", data, "organic")]

normalizeSerperNews(data, normalized) ==
  [normalized EXCEPT !.NewsResults = extract("serper.news", data, "news")]

normalizeSerperImages(data, normalized) ==
  [normalized EXCEPT !.ImageResults = extract("serper.images", data, "images")]

\* mutant: the knowledge graph is not extracted
normalizeSerpAPISearch_NoKnowledgeGraph(data, normalized) ==
  [normalized EXCEPT
     !.OrganicResults = extract("serpapi.organic", data, "organic_results"),
     !.AnswerBox = IF isMap(data, "answer_box")
                     THEN <<SerpAPIAnswerBox(data["answer_box"].o)>> ELSE @,
     !.RelatedSearches = extract("serpapi.related", data, "related_searches"),
     !.PeopleAlsoAsk = extract("serpapi.paa", data, "related_questions"),
     !.SearchMetadata = IF isMap(data, "search_parameters")
                          THEN withSearchParams(@, data["search_parameters"].o) ELSE @]

normalizeSerpAPISearch(data, normalized) ==
  [normalized EXCEPT
     !.OrganicResults = extract("serpapi.organic", data, "organic_results"),
     !.AnswerBox = IF isMap(data, "answer_box")
                     THEN <<SerpAPIAnswerBox(data["answer_box"].o)>> ELSE @,
     !.KnowledgeGraph = IF isMap(data, "knowledge_graph")
                          THEN <<SerpAPIKnowledgeGraph(data["knowledge_graph"].o)>> ELSE @,
     !.RelatedSearches = extract("serpapi.related", data, "related_searches"),
     !.PeopleAlsoAsk = extract("serpapi.paa", data, "related_questions"),
     !.SearchMetadata = IF isMap(data, "search_parameters")
                          THEN withSearchParams(@, data["search_parameters"].o) ELSE @]

normalizeSerpAPINews(data, normalized) ==
  [normalized EXCEPT !.NewsResults = extract("serpapi.news", data, "news_results")]

normalizeSerpAPIImages(data, normalized) ==
  [normalized EXCEPT !.ImageResults = extract("serpapi.images", data, "images_results")]

(***************************************************************************)
(* The exported entry points.  A call returns (res, err): res is <<>> for  *)
(* a nil pointer and <<r>> for a pointer to r; err is "" for a nil error.  *)
(***************************************************************************)
NewNormalizer(name) == [engineName |-> ToLower(name)]

\* mutant: the caller's query is not stored in the metadata
newNormalized_NoQuery(n, result, query) ==
  [OrganicResults |-> <<>>,
   AnswerBox |-> <<>>,
   KnowledgeGraph |-> <<>>,
   RelatedSearches |-> <<>>,
   PeopleAlsoAsk |-> <<>>,
   NewsResults |-> <<>>,
   ImageResults |-> <<>>,
   SearchMetadata |-> [Engine |-> n.engineName, Query |-> "",
                       Location |-> "", Language |-> "", Country |-> ""],
   Raw |-> result]

\* mutant: Raw holds a copy that lost the raw bytes
newNormalized_CopiesRaw(n, result, query) ==
  [OrganicResults |-> <<>>,
   AnswerBox |-> <<>>,
   KnowledgeGraph |-> <<>>,
   RelatedSearches |-> <<>>,
   PeopleAlsoAsk |-> <<>>,
   NewsResults |-> <<>>,
   ImageResults |-> <<>>,
   SearchMetadata |-> [Engine |-> n.engineName, Query |-> query,
                       Location |-> "", Language |-> "", Country |-> ""],
   Raw |-> [result EXCEPT !.Raw = ""]]

\* the NormalizedSearchResult literal built before the dispatch
newNormalized(n, result, query) ==
  [OrganicResults |-> <<>>,
   AnswerBox |-> <<>>,
   KnowledgeGraph |-> <<>>,
   RelatedSearches |-> <<>>,
   PeopleAlsoAsk |-> <<>>,
   NewsResults |-> <<>>,
   ImageResults |-> <<>>,
   SearchMetadata |-> [Engine |-> n.engineName, Query |-> query,
                       Location |-> "", Language |-> "", Country |-> ""],
   Raw |-> result]

\* result == nil || result.Data == nil
nilResultOrData(result) == result.isNil \/ result.Data.t = "null"

\* data, ok := result.Data.(map[string]any)
dataIsMap(result) == result.Data.t = "obj"

ErrNil == "nil result or data"
ErrType == "unexpected data type"
ErrUnsupported == "unsupported engine"

NormalizeSearch(n, result, query) ==
  IF nilResultOrData(result) THEN [res |-> <<>>, err |-> ErrNil]
  ELSE IF ~dataIsMap(result) THEN [res |-> <<>>, err |-> ErrType]
  ELSE IF n.engineName = serper
    THEN [res |-> <<normalizeSerperSearch(result.Data.o, newNormalized(n, result, query))>>,
          err |-> ""]
  ELSE IF n.engineName = serpapi
    THEN [res |-> <<normalizeSerpAPISearch(result.Data.o, newNormalized(n, result, query))>>,
          err |-> ""]
  ELSE [res |-> <<>>, err |-> ErrUnsupported]

\* mutant: the partially built result is returned along with the type error
NormalizeNews_ReturnsPartial(n, result, query) ==
  IF nilResultOrData(result) THEN [res |-> <<>>, err |-> ErrNil]
  ELSE IF ~dataIsMap(result)
    THEN [res |-> <<newNormalized(n, result, query)>>, err |-> ErrType]
  ELSE IF n.engineName = serper
    THEN [res |-> <<normalizeSerperNews(result.Data.o, newNormalized(n, result, query))>>,
          err |-> ""]
  ELSE IF n.engineName = serpapi
    THEN [res |-> <<normalizeSerpAPINews(result.Data.o, newNormalized(n, result, query))>>,
          err |-> ""]
  ELSE [res |-> <<>>, err |-> ErrUnsupported]

NormalizeNews(n, result, query) ==
  IF nilResultOrData(result) THEN [res |-> <<>>, err |-> ErrNil]
  ELSE IF ~dataIsMap(result) THEN [res |-> <<>>, err |-> ErrType]
  ELSE IF n.engineName = serper
    THEN [res |-> <<normalizeSerperNews(result.Data.o, newNormalized(n, result, query))>>,
          err |-> ""]
  ELSE IF n.engineName = serpapi
    THEN [res |-> <<normalizeSerpAPINews(result.Data.o, newNormalized(n, result, query))>>,
          err |-> ""]
  ELSE [res |-> <<>>, err |-> ErrUnsupported]

NormalizeImages(n, result, query) ==
  IF nilResultOrData(result) THEN [res |-> <<>>, err |-> ErrNil]
  ELSE IF ~dataIsMap(result) THEN [res |-> <<>>, err |-> ErrType]
  ELSE IF n.engineName = serper
    THEN [res |-> <<normalizeSerperImages(result.Data.o, newNormalized(n, result, query))>>,
          err |-> ""]
  ELSE IF n.engineName = serpapi
    THEN [res |-> <<normalizeSerpAPIImages(result.Data.o, newNormalized(n, result, query))>>,
          err |-> ""]
  ELSE [res |-> <<>>, err |-> ErrUnsupported]

(***************************************************************************)
(* The same entry points in the two steps a goroutine takes: the checks    *)
(* and the result literal, which read the arguments and n.engineName, and  *)
(* then the switch on n.engineName, which fills the literal.               *)
(***************************************************************************)
beginCall(n, result, query) ==
  IF nilResultOrData(result)
    THEN [step |-> "done", normalized |-> <<>>, ret |-> [res |-> <<>>, err |-> ErrNil]]
  ELSE IF ~dataIsMap(result)
    THEN [step |-> "done", normalized |-> <<>>, ret |-> [res |-> <<>>, err |-> ErrType]]
  ELSE [step |-> "built", normalized |-> <<newNormalized(n, result, query)>>,
        ret |-> [res |-> <<>>, err |-> ""]]

\* mutant: every name is dispatched to the serper table
dispatch_AlwaysSerper(op, n, data, normalized) ==
  [res |-> <<CASE op = "search" -> normalizeSerperSearch(data, normalized)
               [] op = "news" -> normalizeSerperNews(data, normalized)
               [] op = "images" -> normalizeSerperImages(data, normalized)>>,
   err |-> ""]

dispatch(op, n, data, normalized) ==
  IF n.engineName = serper
    THEN [res |-> <<CASE op = "search" -> normalizeSerperSearch(data, normalized)
                      [] op = "news" -> normalizeSerperNews(data, normalized)
                      [] op = "images" -> normalizeSerperImages(data, normalized)>>,
          err |-> ""]
  ELSE IF n.engineName = serpapi
    THEN [res |-> <<CASE op = "search" -> normalizeSerpAPISearch(data, normalized)
                      [] op = "news" -> normalizeSerpAPINews(data, normalized)
                      [] op = "images" -> normalizeSerpAPIImages(data, normalized)>>,
          err |-> ""]
  ELSE [res |-> <<>>, err |-> ErrUnsupported]

(***************************************************************************)
(* The documents the calls are made on.                                    *)
(***************************************************************************)
ItemFull ==
  JObj([title |-> JStr("T1"), link |-> JStr("L1"), snippet |-> JStr("S1"),
        date |-> JStr("D1"), source |-> JStr("Src1"), imageUrl |-> JStr("Img1"),
        original |-> JStr("Orig1"), thumbnail |-> JStr("Th1"),
        query |-> JStr("Rq1"), question |-> JStr("Qn1"), answer |-> JStr("An1"),
        displayed_link |-> JStr("Dl1"), position |-> JNum(7)])

\* wrong-typed title, question and thumbnail, missing snippet, own position
ItemPartial ==
  JObj([title |-> JNum(3), link |-> JStr("L2"), source |-> JStr("Src2"),
        query |-> JStr("Rq2"), question |-> JNull, answer |-> JStr("An2"),
        thumbnail |-> JObj([url |-> JStr("Th2")]), position |-> JNum(1)])

ItemScalar == JStr("x")

Items == {ItemFull, ItemPartial, ItemScalar}

RECURSIVE SeqsUpTo(_, _)
SeqsUpTo(S, k) ==
  IF k = 0 THEN {<<>>}
  ELSE LET shorter == SeqsUpTo(S, k - 1)
       IN shorter \cup {Append(q, x) : q \in {r \in shorter : Len(r) = k - 1}, x \in S}

Arrays == {JArr(a) : a \in SeqsUpTo(Items, MaxLen)}

NonArrays == {JStr("not-an-array"), JNum(1), JNull, JObj([title |-> JStr("T1")])}

NonMaps == {JStr("not-a-map"), JNum(1), JNull, JArr(<<>>)}

BlockFull ==
  JObj([type |-> JStr("Ty1"), title |-> JStr("BT1"), answer |-> JStr("BA1"),
        snippet |-> JStr("BS1"), source |-> JStr("BSrc1"), link |-> JStr("BL1"),
        description |-> JStr("BD1"), imageUrl |-> JStr("BImg1"),
        image |-> JStr("BImage1")])

BlockPartial == JObj([title |-> JStr("BT2"), answer |-> JNum(42)])

ParamsFull ==
  JObj([q |-> JStr("echo"), location |-> JStr("Austin"), hl |-> JStr("en"),
        gl |-> JStr("us")])

ParamsQOnly == JObj([q |-> JStr("echo2")])

ParamsNoQ == JObj([gl |-> JStr("fr")])

ParamsBadQ == JObj([q |-> JNum(5), hl |-> JStr("de")])

ArraySlots == {"organic", "related", "paa", "news", "images"}
BlockSlots == {"answerBox", "knowledgeGraph"}
Slots == ArraySlots \cup BlockSlots \cup {"params"}

\* the key of each collection and block in the two providers' documents
SerperKey ==
  [organic |-> "organic", answerBox |-> "answerBox",
   knowledgeGraph |-> "knowledgeGraph", related |-> "relatedSearches",
   paa |-> "peopleAlsoAsk", params |-> "searchParameters",
   news |-> "news", images |-> "images"]

SerpAPIKey ==
  [organic |-> "organic_results", answerBox |-> "answer_box",
   knowledgeGraph |-> "knowledge_graph", related |-> "related_searches",
   paa |-> "related_questions", params |-> "search_parameters",
   news |-> "news_results", images |-> "images_results"]

KeyTables == {SerperKey, SerpAPIKey}

SlotValues(slot) ==
  IF slot \in ArraySlots THEN Arrays \cup NonArrays
  ELSE IF slot \in BlockSlots THEN {BlockFull, BlockPartial} \cup NonMaps
  ELSE {ParamsFull, ParamsQOnly, ParamsNoQ, ParamsBadQ} \cup NonMaps

Typical(slot) ==
  IF slot \in ArraySlots THEN JArr(<<ItemFull>>)
  ELSE IF slot \in BlockSlots THEN BlockFull
  ELSE ParamsFull

\* a document holding v under the key of slot p, alone or next to a typical
\* value under every other key of the table
Doc(keys, p, v, full) ==
  LET present == IF full THEN Slots ELSE {p}
  IN [k \in {keys[s] : s \in present} |->
        LET s == CHOOSE x \in present : keys[x] = k
        IN IF s = p THEN v ELSE Typical(s)]

EmptyDoc == [k \in {} |-> JNull]

Docs ==
  {EmptyDoc} \cup
  UNION {{Doc(keys, p, v, full) :
            keys \in KeyTables, v \in SlotValues(p), full \in BOOLEAN} : p \in Slots}


\* a *SearchResult: the nil pointer, or a result with its decoded data
NilResult == [isNil |-> TRUE, Data |-> JNull, Raw |-> ""]

Results ==
  {NilResult} \cup
  {[isNil |-> FALSE, Data |-> d, Raw |-> "raw"] :
     d \in {JNull, JArr(<<>>), JArr(<<ItemFull>>), JStr("text"), JNum(0)}
           \cup {JObj(doc) : doc \in Docs}}

Serper == <<"S", "e", "r", "p", "e", "r">>
SERPAPI == <<"S", "E", "R", "P", "A", "P", "I">>
bing == <<"b", "i", "n", "g">>

EngineNames == {serper, serpapi, Serper, SERPAPI, bing}

Queries == {"golang", "weather"}

NoReturn == [res |-> <<>>, err |-> ""]

(***************************************************************************)
(* State: the name given to NewNormalizer, the normalizer (<<>> until it   *)
(* is constructed), the arguments of the call, the entry point that ran    *)
(* (pc) and what it returned (ret).                                        *)
(***************************************************************************)
VARIABLES engineName, normalizer, result, query, pc, ret

(***************************************************************************)
(* Concurrent use: pool holds the constructed normalizers, task the call   *)
(* each goroutine is making, step by step (its arguments, its step, its    *)
(* local values and what it returned).                                     *)
(***************************************************************************)
VARIABLES pool, task

(***************************************************************************)
(* Registry and client: the engines map of the registry, the Register      *)
(* calls made so far, the client (<<>> until constructed) and the last     *)
(* call made with what it returned.                                        *)
(***************************************************************************)
VARIABLES registry, history, client, call

normVars == <<engineName, normalizer, result, query, pc, ret>>
concVars == <<pool, task>>
clientVars == <<registry, history, client, call>>

vars == <<engineName, normalizer, result, query, pc, ret,
          pool, task, registry, history, client, call>>

NoCall == [kind |-> "none"]

\* nothing concurrent is running
concIdle == pool = <<>> /\ task = <<>>

\* no registry or client is in use
clientIdle ==
  /\ registry = [n \in {} |-> n]
  /\ history = <<>>
  /\ client = <<>>
  /\ call = NoCall

\* no single call is being made
normIdle ==
  /\ engineName = serper
  /\ normalizer = <<>>
  /\ result = NilResult
  /\ query = "golang"
  /\ pc = "idle"
  /\ ret = NoReturn

Init ==
  /\ engineName \in EngineNames
  /\ normalizer = <<>>
  /\ result \in Results
  /\ query \in Queries
  /\ pc = "idle"
  /\ ret = NoReturn
  /\ concIdle
  /\ clientIdle

Construct ==
  /\ normalizer = <<>>
  /\ normalizer' = <<NewNormalizer(engineName)>>
  /\ UNCHANGED <<engineName, result, query, pc, ret, concVars, clientVars>>

CallNormalizeSearch ==
  /\ normalizer # <<>>
  /\ pc = "idle"
  /\ ret' = NormalizeSearch(normalizer[1], result, query)
  /\ pc' = "search"
  /\ UNCHANGED <<engineName, normalizer, result, query, concVars, clientVars>>

CallNormalizeNews ==
  /\ normalizer # <<>>
  /\ pc = "idle"
  /\ ret' = NormalizeNews(normalizer[1], result, query)
  /\ pc' = "news"
  /\ UNCHANGED <<engineName, normalizer, result, query, concVars, clientVars>>

CallNormalizeImages ==
  /\ normalizer # <<>>
  /\ pc = "idle"
  /\ ret' = NormalizeImages(normalizer[1], result, query)
  /\ pc' = "images"
  /\ UNCHANGED <<engineName, normalizer, result, query, concVars, clientVars>>

Next ==
  \/ Construct
  \/ CallNormalizeSearch
  \/ CallNormalizeNews
  \/ CallNormalizeImages

Spec == Init /\ [][Next]_vars

(***************************************************************************)
(* Vocabulary of the properties.                                           *)
(***************************************************************************)
returned == pc \in {"search", "news", "images"}

succeeded == returned /\ ret.err = "" /\ ret.res # <<>>

\* the provider table the constructed normalizer dispatches to
known == normalizer # <<>> /\ normalizer[1].engineName \in {serper, serpapi}

objectRoot == ~result.isNil /\ result.Data.t = "obj"

\* the returned NormalizedSearchResult of a successful call
out == ret.res[1]

\* the spellings of the two supported providers among the names
SupportedSpellings == {serper, serpapi, Serper, SERPAPI}

\* C1: a nil result, nil data or a root that is not a keyed mapping makes
\* every Normalize* call return an error and a nil result, whatever the
\* provider name
C1_MalformedRootRejected ==
  (returned /\ (result.isNil \/ result.Data.t # "obj"))
    => (ret.err # "" /\ ret.res = <<>>)

C1_Witness ==
  /\ pc = "news"
  /\ ~result.isNil
  /\ result.Data.t = "arr"
  /\ ret.err # ""

\* C2: on an object root a name that does not lower-case to serper or
\* serpapi gives an error and a nil result, and a name that does never
\* gives the unsupported-engine error
C2_UnsupportedProvider ==
  (returned /\ objectRoot) =>
    /\ (engineName \notin SupportedSpellings) => (ret.err # "" /\ ret.res = <<>>)
    /\ (engineName \in SupportedSpellings) => (ret.err # ErrUnsupported)

C2_Witness ==
  /\ returned
  /\ objectRoot
  /\ engineName = bing
  /\ ret.err = ErrUnsupported
  /\ ret.res = <<>>


(***************************************************************************)
(* The same content written for the other provider: the collection keys of *)
(* the serper table replaced by those of the serpapi table, and inside the *)
(* elements the field names that the serper table reads replaced by the    *)
(* ones the serpapi table reads for the same output field.                 *)
(***************************************************************************)
Without(o, ks) == [k \in DOMAIN o \ ks |-> o[k]]

\* the value under key from, written under every key of tos instead
Moved(o, from, tos) ==
  [k \in (DOMAIN o \ ({from} \cup tos)) \cup (IF from \in DOMAIN o THEN tos ELSE {}) |->
     IF k \in tos THEN o[from] ELSE o[k]]

SerpAPIItem(slot, v) ==
  IF v.t # "obj" THEN v
  ELSE JObj(CASE slot = "images" -> Moved(v.o, "imageUrl", {"original", "thumbnail"})
              [] slot = "news" -> Moved(v.o, "imageUrl", {"thumbnail"})
              [] slot = "related" -> Without(v.o, {"link"})
              [] slot = "paa" -> Without(v.o, {"displayed_link"})
              [] OTHER -> v.o)

SerpAPIValue(slot, v) ==
  IF slot \in ArraySlots /\ v.t = "arr"
    THEN JArr([i \in 1..Len(v.a) |-> SerpAPIItem(slot, v.a[i])])
  ELSE IF slot = "knowledgeGraph" /\ v.t = "obj"
    THEN JObj(Moved(v.o, "imageUrl", {"image"}))
  ELSE v

SerperKeys == {SerperKey[s] : s \in Slots}

SerpAPIForm(doc) ==
  LET present == {s \in Slots : SerperKey[s] \in DOMAIN doc}
  IN [k \in {SerpAPIKey[s] : s \in present} |->
        LET s == CHOOSE x \in present : SerpAPIKey[x] = k
        IN SerpAPIValue(s, doc[SerperKey[s]])]

\* the entry point named by pc
Call(op, n, r, q) ==
  CASE op = "search" -> NormalizeSearch(n, r, q)
    [] op = "news" -> NormalizeNews(n, r, q)
    [] op = "images" -> NormalizeImages(n, r, q)

\* every field of every collection and featured block and of the metadata,
\* except SearchMetadata.Engine (and the back-reference Raw)
SameExceptEngine(a, b) ==
  /\ a.OrganicResults = b.OrganicResults
  /\ a.AnswerBox = b.AnswerBox
  /\ a.KnowledgeGraph = b.KnowledgeGraph
  /\ a.RelatedSearches = b.RelatedSearches
  /\ a.PeopleAlsoAsk = b.PeopleAlsoAsk
  /\ a.NewsResults = b.NewsResults
  /\ a.ImageResults = b.ImageResults
  /\ a.SearchMetadata.Query = b.SearchMetadata.Query
  /\ a.SearchMetadata.Location = b.SearchMetadata.Location
  /\ a.SearchMetadata.Language = b.SearchMetadata.Language
  /\ a.SearchMetadata.Country = b.SearchMetadata.Country

\* C3: a serper document and the same content written as a serpapi document
\* normalize to results that are equal in every field except
\* SearchMetadata.Engine
C3_ProvidersAgree ==
  (succeeded /\ normalizer[1].engineName = serper
     /\ DOMAIN result.Data.o \subseteq SerperKeys)
    => LET twin == Call(pc, NewNormalizer(serpapi),
                        [result EXCEPT !.Data = JObj(SerpAPIForm(result.Data.o))],
                        query)
       IN twin.err = "" /\ SameExceptEngine(out, twin.res[1])

(***************************************************************************)
(* The collections each entry point extracts: output field, slot of the    *)
(* source key, and whether the elements carry a Position.                  *)
(***************************************************************************)
Extracted(op) ==
  CASE op = "search" -> {"organic", "related", "paa"}
    [] op = "news" -> {"news"}
    [] op = "images" -> {"images"}
    [] OTHER -> {}

Ranked == {"organic", "news", "images"}

\* the output collection filled from a slot
Coll(r, slot) ==
  CASE slot = "organic" -> r.OrganicResults
    [] slot = "related" -> r.RelatedSearches
    [] slot = "paa" -> r.PeopleAlsoAsk
    [] slot = "news" -> r.NewsResults
    [] slot = "images" -> r.ImageResults

\* the key table of the provider the normalizer dispatches to
KeyOf(slot) ==
  IF normalizer[1].engineName = serper THEN SerperKey[slot] ELSE SerpAPIKey[slot]

data == result.Data.o

\* the source array of a slot (<<>> when the key is absent or not an array)
SourceArray(slot) ==
  IF KeyOf(slot) \in DOMAIN data /\ data[KeyOf(slot)].t = "arr"
    THEN data[KeyOf(slot)].a ELSE <<>>

\* the indices of the elements of arr that are keyed mappings, ascending
MapIndices(arr) ==
  SelectSeq([i \in 1..Len(arr) |-> i], LAMBDA i : arr[i].t = "obj")

\* C4 as claimed: the output length equals the number of elements of the
\* source array, whatever the elements are, and is 0 when the key is absent
C4_LengthEqualsSourceLength ==
  succeeded =>
    \A slot \in Extracted(pc) :
      /\ (KeyOf(slot) \notin DOMAIN data) => Len(Coll(out, slot)) = 0
      /\ (KeyOf(slot) \in DOMAIN data /\ data[KeyOf(slot)].t = "arr")
           => Len(Coll(out, slot)) = Len(data[KeyOf(slot)].a)

\* C4 amended: the output length equals the number of elements of the source
\* array that are keyed mappings, and is 0 when the key is absent
C4_LengthEqualsMappingCount ==
  succeeded =>
    \A slot \in Extracted(pc) :
      /\ (KeyOf(slot) \notin DOMAIN data) => Len(Coll(out, slot)) = 0
      /\ (KeyOf(slot) \in DOMAIN data /\ data[KeyOf(slot)].t = "arr")
           => Len(Coll(out, slot)) =
                Cardinality({i \in 1..Len(data[KeyOf(slot)].a) :
                               data[KeyOf(slot)].a[i].t = "obj"})

C4_Witness ==
  /\ succeeded
  /\ pc = "news"
  /\ Len(SourceArray("news")) = 2
  /\ Len(out.NewsResults) = 1

\* C5: the positions of every ranked collection are exactly 1..N, N the
\* length of the output collection, also when the source array holds
\* elements that are not keyed mappings
C5_PositionsDense ==
  succeeded =>
    \A slot \in Extracted(pc) \cap Ranked :
      \A k \in 1..Len(Coll(out, slot)) : Coll(out, slot)[k].Position = k

\* the table entry of a slot for the provider the normalizer dispatches to
KindOf(slot) ==
  IF normalizer[1].engineName = serper
    THEN CASE slot = "organic" -> "serper.organic"
           [] slot = "related" -> "serper.related"
           [] slot = "paa" -> "serper.paa"
           [] slot = "news" -> "serper.news"
           [] slot = "images" -> "serper.images"
    ELSE CASE slot = "organic" -> "serpapi.organic"
           [] slot = "related" -> "serpapi.related"
           [] slot = "paa" -> "serpapi.paa"
           [] slot = "news" -> "serpapi.news"
           [] slot = "images" -> "serpapi.images"

\* C6: every output collection is built from the keyed-mapping elements of
\* its source array in source order, each of them exactly once: the k-th
\* output element is the one built from the k-th keyed mapping of the array
C6_SourceOrderPreserved ==
  succeeded =>
    \A slot \in Extracted(pc) :
      LET arr == SourceArray(slot)
          idx == MapIndices(arr)
      IN /\ Len(Coll(out, slot)) = Len(idx)
         /\ \A k \in 1..Len(idx) :
              Coll(out, slot)[k] = newItem(KindOf(slot), idx[k], arr[idx[k]].o)

C6_Witness ==
  /\ succeeded
  /\ pc = "search"
  /\ SourceArray("related") = <<ItemPartial, ItemFull>>
  /\ Len(out.RelatedSearches) = 2
  /\ out.RelatedSearches[1].Query = "Rq2"
  /\ out.RelatedSearches[2].Query = "Rq1"

\* C7: with a known provider and an object root the call succeeds whatever
\* is stored under the collection keys; a collection whose key is absent or
\* holds a value that is not an array is empty, and the collections whose
\* keys hold arrays are still extracted
C7_NonArrayAbsorbed ==
  (returned /\ objectRoot /\ known) =>
    /\ ret.err = ""
    /\ ret.res # <<>>
    /\ \A slot \in Extracted(pc) :
         IF KeyOf(slot) \in DOMAIN data /\ data[KeyOf(slot)].t = "arr"
           THEN (\E i \in 1..Len(data[KeyOf(slot)].a) : data[KeyOf(slot)].a[i].t = "obj")
                  => Coll(out, slot) # <<>>
           ELSE Coll(out, slot) = <<>>

C7_Witness ==
  /\ succeeded
  /\ pc = "search"
  /\ KeyOf("organic") \in DOMAIN data
  /\ data[KeyOf("organic")].t = "str"
  /\ out.OrganicResults = <<>>
  /\ Len(out.RelatedSearches) = 1
  /\ Len(out.PeopleAlsoAsk) = 1

\* the string stored under key, if there is one
HasString(m, key) == key \in DOMAIN m /\ m[key].t = "str"

hasEcho == KeyOf("params") \in DOMAIN data /\ data[KeyOf("params")].t = "obj"

echo == data[KeyOf("params")].o

\* C9: in NormalizeSearch the q, location, hl and gl strings of the echo
\* block are the Query, Location, Language and Country of the metadata,
\* whatever query the caller passed; Engine stays the normalizer's name
C9_EchoOverridesInSearch ==
  (succeeded /\ pc = "search" /\ hasEcho) =>
    /\ HasString(echo, "q") => out.SearchMetadata.Query = echo["q"].s
    /\ out.SearchMetadata.Location =
         (IF HasString(echo, "location") THEN echo["location"].s ELSE "")
    /\ out.SearchMetadata.Language =
         (IF HasString(echo, "hl") THEN echo["hl"].s ELSE "")
    /\ out.SearchMetadata.Country =
         (IF HasString(echo, "gl") THEN echo["gl"].s ELSE "")
    /\ out.SearchMetadata.Engine = normalizer[1].engineName

C9_Witness ==
  /\ succeeded
  /\ pc = "search"
  /\ hasEcho
  /\ HasString(echo, "q")
  /\ echo["q"].s # query
  /\ out.SearchMetadata.Query = echo["q"].s
  /\ out.SearchMetadata.Location = "Austin"
  /\ out.SearchMetadata.Engine = serpapi

\* C10: in NormalizeNews and NormalizeImages too the echo block overrides
\* the caller's query and fills location, language and country
C10_EchoOverridesInNewsAndImages ==
  (succeeded /\ pc \in {"news", "images"} /\ hasEcho) =>
    /\ HasString(echo, "q") => out.SearchMetadata.Query = echo["q"].s
    /\ HasString(echo, "location") => out.SearchMetadata.Location = echo["location"].s
    /\ HasString(echo, "hl") => out.SearchMetadata.Language = echo["hl"].s
    /\ HasString(echo, "gl") => out.SearchMetadata.Country = echo["gl"].s

\* C11: without an echo block every successful call reports the caller's
\* query, the lower-cased provider name as engine (Serper reports serper,
\* SERPAPI reports serpapi) and empty location, language and country
C11_MetadataDefaults ==
  /\ (returned /\ objectRoot /\ engineName \in SupportedSpellings) => succeeded
  /\ (succeeded /\ ~hasEcho) =>
       /\ out.SearchMetadata.Query = query
       /\ out.SearchMetadata.Engine =
            (IF engineName \in {serper, Serper} THEN serper ELSE serpapi)
       /\ out.SearchMetadata.Location = ""
       /\ out.SearchMetadata.Language = ""
       /\ out.SearchMetadata.Country = ""

C11_Witness ==
  /\ succeeded
  /\ pc = "search"
  /\ engineName = Serper
  /\ ~hasEcho
  /\ Len(out.OrganicResults) = 2
  /\ out.SearchMetadata.Engine = serper
  /\ out.SearchMetadata.Query = query

\* C12: after a web search AnswerBox (KnowledgeGraph) is non-nil exactly
\* when the document holds a keyed mapping under the provider's answer-box
\* (knowledge-graph) key, and the call succeeds in either case
C12_FeaturedBlocks ==
  (pc = "search" /\ objectRoot /\ known) =>
    /\ succeeded
    /\ (out.AnswerBox # <<>>) <=>
         (KeyOf("answerBox") \in DOMAIN data /\ data[KeyOf("answerBox")].t = "obj")
    /\ (out.KnowledgeGraph # <<>>) <=>
         (KeyOf("knowledgeGraph") \in DOMAIN data
            /\ data[KeyOf("knowledgeGraph")].t = "obj")

C12_Witness ==
  /\ succeeded
  /\ pc = "search"
  /\ normalizer[1].engineName = serpapi
  /\ "answer_box" \in DOMAIN data
  /\ data["answer_box"].t = "str"
  /\ out.AnswerBox = <<>>
  /\ out.KnowledgeGraph # <<>>
  /\ Len(out.OrganicResults) = 1

\* C13: no call changes the RawResult it was given, and the Raw field of a
\* returned result is the RawResult that was passed in
C13_InputUntouched ==
  [][/\ result' = result
     /\ (returned' /\ ret'.err = "" /\ ret'.res # <<>>) => ret'.res[1].Raw = result]_vars

C13_Witness ==
  /\ succeeded
  /\ pc = "images"
  /\ Len(out.ImageResults) = 2
  /\ out.Raw = result
  /\ out.Raw.Raw = "raw"

(***************************************************************************)
(* Two goroutines calling Normalize* at the same time, on normalizers of   *)
(* the pool (the same one or different ones), one call after the other.    *)
(***************************************************************************)
Goroutines == {1, 2}

PoolNames == {serper, SERPAPI, bing}

ConcResults ==
  {NilResult,
   [isNil |-> FALSE, Data |-> JArr(<<ItemFull>>), Raw |-> "raw"],
   [isNil |-> FALSE, Raw |-> "raw",
    Data |-> JObj(Doc(SerperKey, "organic", JArr(<<ItemScalar, ItemPartial>>), TRUE))],
   [isNil |-> FALSE, Raw |-> "raw",
    Data |-> JObj(Doc(SerpAPIKey, "news", JArr(<<ItemFull, ItemPartial>>), TRUE))]}

\* the query each goroutine passes
QueryOf(g) == IF g = 1 THEN "golang" ELSE "weather"

\* goroutine g about to call op on pool[i] with result r
newTask(g, i, op, r) ==
  [n |-> i, op |-> op, result |-> r, query |-> QueryOf(g),
   step |-> "ready", normalized |-> <<>>, ret |-> NoReturn]

Tasks(g) ==
  {newTask(g, i, op, r) : i \in 1..2, op \in {"search", "news", "images"},
                          r \in ConcResults}

ConcInit ==
  /\ normIdle
  /\ clientIdle
  /\ pool \in {<<NewNormalizer(a), NewNormalizer(b)>> : a \in PoolNames, b \in PoolNames}
  /\ task \in {<<t1, t2>> : t1 \in Tasks(1), t2 \in Tasks(2)}

\* the checks and the result literal
Begin(g) ==
  /\ task[g].step = "ready"
  /\ LET b == beginCall(pool[task[g].n], task[g].result, task[g].query)
     IN task' = [task EXCEPT ![g].step = b.step,
                              ![g].normalized = b.normalized,
                              ![g].ret = b.ret]
  /\ UNCHANGED <<pool, normVars, clientVars>>

\* the switch on the engine name and the return
Dispatch(g) ==
  /\ task[g].step = "built"
  /\ task' = [task EXCEPT
                ![g].step = "done",
                ![g].ret = dispatch(task[g].op, pool[task[g].n],
                                    task[g].result.Data.o, task[g].normalized[1])]
  /\ UNCHANGED <<pool, normVars, clientVars>>

\* the goroutine makes its next call
NextCall(g) ==
  /\ task[g].step = "done"
  /\ \E t \in Tasks(g) : task' = [task EXCEPT ![g] = t]
  /\ UNCHANGED <<pool, normVars, clientVars>>

ConcNext ==
  \/ \E g \in Goroutines : Begin(g)
  \/ \E g \in Goroutines : Dispatch(g)
  \/ \E g \in Goroutines : NextCall(g)

ConcSpec == ConcInit /\ [][ConcNext]_vars

\* C14: whatever the other goroutine does and whatever calls were made
\* before, a call returns what the same call returns when it runs alone, and
\* no step changes the provider name of a normalizer
C14_CallsIndependent ==
  /\ [](\A g \in Goroutines :
          task[g].step = "done" =>
            task[g].ret = Call(task[g].op, pool[task[g].n], task[g].result,
                               task[g].query))
  /\ [][pool' = pool]_vars

C14_Witness ==
  /\ task[1].step = "done"
  /\ task[2].step = "built"
  /\ task[1].n = task[2].n
  /\ pool[task[1].n].engineName = serper
  /\ task[1].op = "search"
  /\ task[1].ret.err = ""
  /\ Len(task[1].ret.res[1].OrganicResults) = 1
  /\ task[1].ret.res[1].SearchMetadata.Query = "echo"

(***************************************************************************)
(* Engines, the registry and the client.  An engine value is the package   *)
(* that implements it and the API key it was made with; its name, its tool *)
(* list and what its methods do follow from the package.                   *)
(***************************************************************************)
OpSearch == "google_search"
OpSearchNews == "google_search_news"
OpSearchImages == "google_search_images"
OpSearchVideos == "google_search_videos"
OpSearchPlaces == "google_search_places"
OpSearchMaps == "google_search_maps"
OpSearchReviews == "google_search_reviews"
OpSearchShopping == "google_search_shopping"
OpSearchScholar == "google_search_scholar"
OpSearchLens == "google_search_lens"
OpSearchAutocomplete == "google_search_autocomplete"
OpScrapeWebpage == "webpage_scrape"

Ops ==
  {OpSearch, OpSearchNews, OpSearchImages, OpSearchVideos, OpSearchPlaces,
   OpSearchMaps, OpSearchReviews, OpSearchShopping, OpSearchScholar,
   OpSearchLens, OpSearchAutocomplete, OpScrapeWebpage}

newengine == <<"n","e","w","e","n","g","i","n","e">>

SerperEngine(apiKey) == [pkg |-> "serper", apiKey |-> apiKey]
SerpAPIEngine(apiKey) == [pkg |-> "serpapi", apiKey |-> apiKey]
NewEngine(apiKey) == [pkg |-> "newengine", apiKey |-> apiKey]

EngineGetName(e) ==
  CASE e.pkg = "serper" -> serper
    [] e.pkg = "serpapi" -> serpapi
    [] e.pkg = "newengine" -> newengine

SerperTools ==
  <<"google_search", "google_search_news", "google_search_images",
    "google_search_videos", "google_search_places", "google_search_maps",
    "google_search_reviews", "google_search_shopping", "google_search_scholar",
    "google_search_lens", "google_search_autocomplete", "webpage_scrape">>

\* mutant: the SerpAPI list also names google_search_lens
SerpAPITools_WithLens == SerperTools

SerpAPITools ==
  <<"google_search", "google_search_news", "google_search_images",
    "google_search_videos", "google_search_places", "google_search_maps",
    "google_search_reviews", "google_search_shopping", "google_search_scholar",
    "google_search_autocomplete", "webpage_scrape">>

\* an engine added the way the README describes, with a short tool list
NewEngineTools == <<"google_search_lens", "webpage_scrape">>

GetSupportedTools(e) ==
  CASE e.pkg = "serper" -> SerperTools
    [] e.pkg = "serpapi" -> SerpAPITools
    [] e.pkg = "newengine" -> NewEngineTools

NilErr == [kind |-> "nil"]
ErrOperationNotSupported == [kind |-> "ErrOperationNotSupported"]

\* errors.Is
Is(err, target) ==
  \/ err = target
  \/ err.kind = "wrapped" /\ err.wraps = target

\* what the method of engine e for op can return: a response of the
\* provider, or an error of the request; SerpAPI's SearchLens always fails
EngineCall(e, op) ==
  IF e.pkg = "serpapi" /\ op = OpSearchLens
    THEN {[res |-> <<>>, err |-> [kind |-> "lensNotSupportedBySerpAPI"]]}
  ELSE {[res |-> <<[by |-> e, op |-> op]>>, err |-> NilErr],
        [res |-> <<>>, err |-> [kind |-> "requestFailed"]]}

(***************************************************************************)
(* Registry: the engines map, a function from names to engines.            *)
(***************************************************************************)
NewRegistry == [n \in {} |-> NilErr]

\* mutant: a name already registered keeps its engine
Register_KeepsFirst(reg, e) ==
  [n \in DOMAIN reg \cup {EngineGetName(e)} |->
     IF n \in DOMAIN reg THEN reg[n] ELSE e]

Register(reg, e) ==
  [n \in DOMAIN reg \cup {EngineGetName(e)} |->
     IF n = EngineGetName(e) THEN e ELSE reg[n]]

Get(reg, name) ==
  IF name \in DOMAIN reg
    THEN [engine |-> <<reg[name]>>, exists |-> TRUE]
    ELSE [engine |-> <<>>, exists |-> FALSE]

\* the slices List can return: ranging over a map visits every key once, in
\* an order the runtime chooses
List(reg) ==
  {l \in [1..Cardinality(DOMAIN reg) -> DOMAIN reg] :
     \A i, j \in 1..Cardinality(DOMAIN reg) : l[i] = l[j] => i = j}

(***************************************************************************)
(* GetDefaultEngine, given the value of SEARCH_ENGINE ("" when unset): the *)
(* set of returns, one for each slice List can return.                     *)
(***************************************************************************)
\* mutant: the default name is serpapi
selected_DefaultsToSerpAPI(env) == IF env = <<>> THEN serpapi ELSE env

selected(env) == IF env = <<>> THEN serper ELSE env

\* mutant: the fallback skips the lookup of serper
fallback_FirstAvailable(reg, selectedEngine, availableEngines) ==
  IF Len(availableEngines) = 0
    THEN [engine |-> <<>>, err |-> [kind |-> "noEngines"]]
  ELSE [engine |-> Get(reg, availableEngines[1]).engine,
        err |-> [kind |-> "fallback", selected |-> selectedEngine,
                 to |-> availableEngines[1], available |-> availableEngines]]

fallback(reg, selectedEngine, availableEngines) ==
  IF Len(availableEngines) = 0
    THEN [engine |-> <<>>, err |-> [kind |-> "noEngines"]]
  ELSE IF Get(reg, serper).exists
    THEN [engine |-> Get(reg, serper).engine,
          err |-> [kind |-> "fallback", selected |-> selectedEngine,
                   to |-> serper, available |-> availableEngines]]
  ELSE [engine |-> Get(reg, availableEngines[1]).engine,
        err |-> [kind |-> "fallback", selected |-> selectedEngine,
                 to |-> availableEngines[1], available |-> availableEngines]]

GetDefaultEngine(reg, env) ==
  IF Get(reg, selected(env)).exists
    THEN {[engine |-> Get(reg, selected(env)).engine, err |-> NilErr]}
    ELSE {fallback(reg, selected(env), availableEngines) :
            availableEngines \in List(reg)}

(***************************************************************************)
(* Client.  The client value holds the active engine; its registry field   *)
(* points to the registry of the state.                                    *)
(***************************************************************************)
GetEngine(reg, name) ==
  IF ~Get(reg, name).exists
    THEN [engine |-> <<>>, err |-> [kind |-> "notFound", name |-> name]]
    ELSE [engine |-> Get(reg, name).engine, err |-> NilErr]

\* mutant: an unknown name switches to serper and still reports the error
SetEngine_FallsBack(c, reg, name) ==
  IF GetEngine(reg, name).err # NilErr
    THEN [client |-> IF Get(reg, serper).exists
                       THEN [c EXCEPT !.engine = Get(reg, serper).engine[1]]
                       ELSE c,
          err |-> GetEngine(reg, name).err]
    ELSE [client |-> [c EXCEPT !.engine = GetEngine(reg, name).engine[1]],
          err |-> NilErr]

\* mutant: the engine found is not stored
SetEngine_NoAssign(c, reg, name) ==
  IF GetEngine(reg, name).err # NilErr
    THEN [client |-> c, err |-> GetEngine(reg, name).err]
    ELSE [client |-> c, err |-> NilErr]

SetEngine(c, reg, name) ==
  IF GetEngine(reg, name).err # NilErr
    THEN [client |-> c, err |-> GetEngine(reg, name).err]
    ELSE [client |-> [c EXCEPT !.engine = GetEngine(reg, name).engine[1]],
          err |-> NilErr]

ListEngines(reg) == List(reg)

GetName(c) == EngineGetName(c.engine)

SupportsOperation(c, operation) ==
  \E i \in 1..Len(GetSupportedTools(c.engine)) :
     GetSupportedTools(c.engine)[i] = operation

\* mutant: every operation passes the check
checkSupport_AlwaysNil(c, operation) == NilErr

checkSupport(c, operation) ==
  IF ~SupportsOperation(c, operation)
    THEN [kind |-> "wrapped", wraps |-> ErrOperationNotSupported,
          operation |-> operation, engine |-> GetName(c)]
    ELSE NilErr

\* a facade method (Search .. ScrapeWebpage) for op, where engineRet is what
\* the engine's method returns when it is called
Facade(c, op, engineRet) ==
  IF checkSupport(c, op) # NilErr
    THEN [res |-> <<>>, err |-> checkSupport(c, op), invoked |-> FALSE]
    ELSE [res |-> engineRet.res, err |-> engineRet.err, invoked |-> TRUE]

\* the engines NewWithOptions registers, given the two API keys of the
\* environment ("" when unset)
autoRegistered(serperKey, serpapiKey) ==
  (IF serperKey # "" THEN <<SerperEngine(serperKey)>> ELSE <<>>)
  \o (IF serpapiKey # "" THEN <<SerpAPIEngine(serpapiKey)>> ELSE <<>>)

RECURSIVE registerAll(_, _)
registerAll(reg, engines) ==
  IF engines = <<>> THEN reg
  ELSE registerAll(Register(reg, Head(engines)), Tail(engines))

\* mutant: an explicit name that is not registered falls back to the default
NewWithOptions_ExplicitFallsBack(optsEngineName, serperKey, serpapiKey, env) ==
  LET reg == registerAll(NewRegistry, autoRegistered(serperKey, serpapiKey))
      chosen == IF optsEngineName # <<>> /\ Get(reg, optsEngineName).exists
                  THEN {GetEngine(reg, optsEngineName)}
                  ELSE GetDefaultEngine(reg, env)
  IN {IF x.engine = <<>>
        THEN [client |-> <<>>, registry |-> reg, err |-> [kind |-> "noEnginesAvailable"]]
      ELSE [client |-> <<[engine |-> x.engine[1]]>>, registry |-> reg, err |-> NilErr]
      : x \in chosen}

\* the returns of NewWithOptions, with the registry it built
NewWithOptions(optsEngineName, serperKey, serpapiKey, env) ==
  LET reg == registerAll(NewRegistry, autoRegistered(serperKey, serpapiKey))
      chosen == IF optsEngineName # <<>>
                  THEN {GetEngine(reg, optsEngineName)}
                  ELSE GetDefaultEngine(reg, env)
  IN {IF optsEngineName # <<>> /\ x.err # NilErr
        THEN [client |-> <<>>, registry |-> reg, err |-> x.err]
      ELSE IF x.engine = <<>>
        THEN [client |-> <<>>, registry |-> reg, err |-> [kind |-> "noEnginesAvailable"]]
      ELSE [client |-> <<[engine |-> x.engine[1]]>>, registry |-> reg, err |-> NilErr]
      : x \in chosen}

(***************************************************************************)
(* The calls a program makes on a registry and on a client.                *)
(***************************************************************************)
MaxRegs == 3

ApiKeys == {"key1", "key2"}

Engines ==
  {SerperEngine(k) : k \in ApiKeys} \cup {SerpAPIEngine("key1"), NewEngine("key1")}

\* the names asked for, and the values of SEARCH_ENGINE besides unset
Names == {serper, serpapi, newengine, Serper}

ClientInit ==
  /\ normIdle
  /\ concIdle
  /\ registry = NewRegistry
  /\ history = <<>>
  /\ client = <<>>
  /\ call = NoCall

CallRegister ==
  /\ Len(history) < MaxRegs
  /\ \E e \in Engines :
       /\ registry' = Register(registry, e)
       /\ history' = Append(history, e)
       /\ call' = [kind |-> "Register", engine |-> e]
  /\ UNCHANGED <<client, normVars, concVars>>

CallGet ==
  /\ \E name \in Names :
       call' = [kind |-> "Get", name |-> name, ret |-> Get(registry, name)]
  /\ UNCHANGED <<registry, history, client, normVars, concVars>>

CallList ==
  /\ \E l \in List(registry) : call' = [kind |-> "List", ret |-> l]
  /\ UNCHANGED <<registry, history, client, normVars, concVars>>

CallGetDefaultEngine ==
  /\ \E env \in Names \cup {<<>>} :
       \E r \in GetDefaultEngine(registry, env) :
          call' = [kind |-> "GetDefaultEngine", env |-> env, ret |-> r]
  /\ UNCHANGED <<registry, history, client, normVars, concVars>>

CallNewWithOptions ==
  /\ client = <<>>
  /\ history = <<>>
  /\ \E optsEngineName \in Names \cup {<<>>}, env \in Names \cup {<<>>},
        serperKey \in {"", "key1"}, serpapiKey \in {"", "key1"} :
       \E r \in NewWithOptions(optsEngineName, serperKey, serpapiKey, env) :
          /\ client' = r.client
          /\ registry' = IF r.client = <<>> THEN NewRegistry ELSE r.registry
          /\ history' = IF r.client = <<>> THEN <<>>
                        ELSE autoRegistered(serperKey, serpapiKey)
          /\ call' = [kind |-> "NewWithOptions", name |-> optsEngineName,
                      env |-> env, registered |-> r.registry, err |-> r.err]
  /\ UNCHANGED <<normVars, concVars>>

CallSetEngine ==
  /\ client # <<>>
  /\ \E name \in Names :
       /\ client' = <<SetEngine(client[1], registry, name).client>>
       /\ call' = [kind |-> "SetEngine", name |-> name,
                   err |-> SetEngine(client[1], registry, name).err]
  /\ UNCHANGED <<registry, history, normVars, concVars>>

CallListEngines ==
  /\ client # <<>>
  /\ \E l \in ListEngines(registry) : call' = [kind |-> "ListEngines", ret |-> l]
  /\ UNCHANGED <<registry, history, client, normVars, concVars>>

CallSupportsOperation ==
  /\ client # <<>>
  /\ \E op \in Ops :
       call' = [kind |-> "SupportsOperation", op |-> op,
                ret |-> SupportsOperation(client[1], op)]
  /\ UNCHANGED <<registry, history, client, normVars, concVars>>

\* one of the twelve facade methods; engine is the engine the call went to
\* and engineRet what its method returns when called
CallFacade ==
  /\ client # <<>>
  /\ \E op \in Ops :
       \E engineRet \in EngineCall(client[1].engine, op) :
          call' = [kind |-> "Facade", op |-> op, engine |-> client[1].engine,
                   engineRet |-> engineRet,
                   ret |-> Facade(client[1], op, engineRet)]
  /\ UNCHANGED <<registry, history, client, normVars, concVars>>

ClientNext ==
  \/ CallRegister
  \/ CallGet
  \/ CallList
  \/ CallGetDefaultEngine
  \/ CallNewWithOptions
  \/ CallSetEngine
  \/ CallListEngines
  \/ CallSupportsOperation
  \/ CallFacade

ClientSpec == ClientInit /\ [][ClientNext]_vars

(***************************************************************************)
(* Vocabulary of the properties of the registry and the client.            *)
(***************************************************************************)
\* the operations engine e lists
ToolSet(e) == {GetSupportedTools(e)[i] : i \in 1..Len(GetSupportedTools(e))}

\* the names registered so far
RegisteredNames == {EngineGetName(history[i]) : i \in 1..Len(history)}

\* the engine most recently registered under name
Latest(name) ==
  LET at == {i \in 1..Len(history) : EngineGetName(history[i]) = name}
  IN history[CHOOSE i \in at : \A j \in at : j <= i]

\* the name GetDefaultEngine looks up for a value of SEARCH_ENGINE
Wanted(env) == IF env = <<>> THEN serper ELSE env

\* how often x occurs in the sequence l
Occurrences(l, x) == Cardinality({i \in 1..Len(l) : l[i] = x})

\* C15: a facade call for an operation the active engine does not list
\* returns no result and an error matching ErrOperationNotSupported without
\* calling the engine; for a listed operation the engine's method is called
\* and its result and error are returned as they are, which never match
\* ErrOperationNotSupported
C15_CapabilityChecked ==
  call.kind = "Facade" =>
    /\ call.engine = client[1].engine
    /\ IF call.op \notin ToolSet(call.engine)
         THEN /\ call.ret.res = <<>>
              /\ Is(call.ret.err, ErrOperationNotSupported)
              /\ ~call.ret.invoked
         ELSE /\ call.ret.invoked
              /\ call.ret.res = call.engineRet.res
              /\ call.ret.err = call.engineRet.err
              /\ ~Is(call.ret.err, ErrOperationNotSupported)

C15_Witness ==
  /\ call.kind = "Facade"
  /\ call.engine.pkg = "serpapi"
  /\ call.op = OpSearchLens
  /\ ~call.ret.invoked
  /\ call.ret.res = <<>>
  /\ Is(call.ret.err, ErrOperationNotSupported)

\* C16: SupportsOperation answers true exactly for the operations the
\* active engine lists: all twelve constants with Serper, all but
\* google_search_lens with SerpAPI, and google_search with both
C16_SupportsOperationExact ==
  /\ Cardinality(Ops) = 12
  /\ call.kind = "SupportsOperation" =>
       /\ call.ret <=> call.op \in ToolSet(client[1].engine)
       /\ client[1].engine.pkg = "serper" => call.ret
       /\ client[1].engine.pkg = "serpapi" => (call.ret <=> call.op # OpSearchLens)
       /\ (client[1].engine.pkg \in {"serper", "serpapi"} /\ call.op = OpSearch)
            => call.ret

C16_Witness ==
  /\ call.kind = "SupportsOperation"
  /\ client[1].engine.pkg = "serpapi"
  /\ call.op = OpSearchLens
  /\ ~call.ret

\* C17: SetEngine with a name ListEngines can return succeeds and makes it
\* the name GetName returns; facade calls go to the engine of the client,
\* which only a successful SetEngine changes
C17_RuntimeSwitching ==
  [][/\ (/\ call'.kind = "SetEngine"
         /\ \E l \in ListEngines(registry) :
              \E i \in 1..Len(l) : l[i] = call'.name)
          => /\ call'.err = NilErr
             /\ GetName(client'[1]) = call'.name
     /\ call'.kind = "Facade"
          => /\ client' = client
             /\ call'.engine = client[1].engine
             /\ call'.ret = Facade(client[1], call'.op, call'.engineRet)
     /\ call'.kind = "SupportsOperation"
          => /\ client' = client
             /\ call'.ret = SupportsOperation(client[1], call'.op)
     /\ (client # <<>> /\ client' # client)
          => /\ call'.kind = "SetEngine"
             /\ call'.err = NilErr]_vars

C17_Witness ==
  /\ call.kind = "SetEngine"
  /\ call.name = newengine
  /\ call.err = NilErr
  /\ GetName(client[1]) = newengine
  /\ Len(history) = 3
  /\ history[1].pkg = "serper"

\* C18: GetDefaultEngine looks up the name in SEARCH_ENGINE, serper when it
\* is unset or empty, and when that name is registered it returns the engine
\* registered under it and a nil error
C18_SelectsNamedEngine ==
  (call.kind = "GetDefaultEngine" /\ Wanted(call.env) \in RegisteredNames) =>
    /\ call.ret.engine = <<Latest(Wanted(call.env))>>
    /\ call.ret.err = NilErr

C18_Witness ==
  /\ call.kind = "GetDefaultEngine"
  /\ call.env = <<>>
  /\ RegisteredNames = {serper, serpapi}
  /\ history[1].pkg = "serpapi"
  /\ call.ret.engine = <<SerperEngine("key1")>>
  /\ call.ret.err = NilErr

\* C19: when the name looked up is not registered, GetDefaultEngine returns
\* the serper engine and a warning if serper is registered, otherwise a
\* registered engine and a warning that names it; it returns no engine, with
\* an error, exactly when nothing is registered
C19_Fallback ==
  call.kind = "GetDefaultEngine" =>
    /\ Wanted(call.env) \notin RegisteredNames =>
         IF serper \in RegisteredNames
           THEN /\ call.ret.engine = <<Latest(serper)>>
                /\ call.ret.err # NilErr
         ELSE IF RegisteredNames # {}
           THEN /\ call.ret.engine # <<>>
                /\ \E n \in RegisteredNames :
                     /\ call.ret.engine = <<Latest(n)>>
                     /\ call.ret.err.kind = "fallback"
                     /\ call.ret.err.to = n
         ELSE TRUE
    /\ (call.ret.engine = <<>>) <=> (RegisteredNames = {})
    /\ call.ret.engine = <<>> => call.ret.err # NilErr

C19_Witness ==
  /\ call.kind = "GetDefaultEngine"
  /\ call.env = Serper
  /\ RegisteredNames = {serpapi, newengine}
  /\ call.ret.engine = <<NewEngine("key1")>>
  /\ call.ret.err.to = newengine

\* C20: after any Register calls, Get finds exactly the names registered,
\* compared exactly, and returns the engine registered last under the name;
\* every slice List can return holds each registered name once
C20_RegistryContents ==
  /\ \A name \in Names :
       /\ Get(registry, name).exists <=> name \in RegisteredNames
       /\ name \in RegisteredNames => Get(registry, name).engine = <<Latest(name)>>
       /\ name \notin RegisteredNames => Get(registry, name).engine = <<>>
  /\ \A l \in List(registry) :
       /\ Len(l) = Cardinality(RegisteredNames)
       /\ \A name \in Names :
            Occurrences(l, name) = (IF name \in RegisteredNames THEN 1 ELSE 0)
  /\ call.kind = "Get" => call.ret = Get(registry, call.name)
  /\ call.kind = "List" => call.ret \in List(registry)

C20_Witness ==
  /\ history = <<SerperEngine("key1"), SerpAPIEngine("key1"), SerperEngine("key2")>>
  /\ call.kind = "Get"
  /\ call.name = serper
  /\ call.ret.engine = <<SerperEngine("key2")>>
  /\ ~Get(registry, Serper).exists

\* the names of the Register calls h, each at its first registration
RECURSIVE FirstRegistered(_)
FirstRegistered(h) ==
  IF h = <<>> THEN <<>>
  ELSE LET before == FirstRegistered(SubSeq(h, 1, Len(h) - 1))
           name == EngineGetName(h[Len(h)])
       IN IF \E i \in 1..Len(before) : before[i] = name
            THEN before
            ELSE Append(before, name)

\* C21: List returns the registered names in the order of their first
\* registration, and the engine the GetDefaultEngine fallback takes as the
\* first available one is the one registered first
C21_InsertionOrdered ==
  /\ call.kind \in {"List", "ListEngines"} => call.ret = FirstRegistered(history)
  /\ (/\ call.kind = "GetDefaultEngine"
      /\ Wanted(call.env) \notin RegisteredNames
      /\ serper \notin RegisteredNames
      /\ RegisteredNames # {})
       => call.ret.engine = <<Latest(FirstRegistered(history)[1])>>

\* C24: with the SerpAPI table the Source of each people-also-ask entry is
\* the string under displayed_link of its element, empty when there is
\* none, whatever the element holds under source
C24_SourceFromDisplayedLink ==
  (succeeded /\ pc = "search" /\ normalizer[1].engineName = serpapi) =>
    LET arr == SourceArray("paa")
        idx == MapIndices(arr)
    IN /\ Len(out.PeopleAlsoAsk) = Len(idx)
       /\ \A k \in 1..Len(idx) :
            out.PeopleAlsoAsk[k].Source =
              (IF HasString(arr[idx[k]].o, "displayed_link")
                 THEN arr[idx[k]].o["displayed_link"].s
                 ELSE "")

C24_Witness ==
  /\ succeeded
  /\ pc = "search"
  /\ normalizer[1].engineName = serpapi
  /\ SourceArray("paa") = <<ItemPartial, ItemFull>>
  /\ HasString(ItemPartial.o, "source")
  /\ out.PeopleAlsoAsk[1].Source = ""
  /\ out.PeopleAlsoAsk[2].Source = "Dl1"

\* C28: NormalizeNews fills only NewsResults and NormalizeImages only
\* ImageResults, and NormalizeSearch fills neither of the two, whatever
\* keys the document has
C28_OwnCollectionsOnly ==
  succeeded =>
    /\ pc \in {"news", "images"} =>
         /\ out.OrganicResults = <<>>
         /\ out.AnswerBox = <<>>
         /\ out.KnowledgeGraph = <<>>
         /\ out.RelatedSearches = <<>>
         /\ out.PeopleAlsoAsk = <<>>
    /\ pc # "news" => out.NewsResults = <<>>
    /\ pc # "images" => out.ImageResults = <<>>

C28_Witness ==
  /\ succeeded
  /\ pc = "news"
  /\ normalizer[1].engineName = serper
  /\ Len(SourceArray("organic")) = 1
  /\ Len(SourceArray("images")) = 1
  /\ isMap(data, "answerBox")
  /\ Len(SourceArray("news")) = 2
  /\ Len(out.NewsResults) = 2
  /\ out.OrganicResults = <<>>
  /\ out.ImageResults = <<>>

\* C29: in NormalizeSearch, when the echo block is present and holds no
\* string under q, the Query of the metadata is the query the caller passed
C29_QueryKeptWithoutEchoedQuery ==
  (succeeded /\ pc = "search" /\ hasEcho /\ ~HasString(echo, "q")) =>
    out.SearchMetadata.Query = query

(***************************************************************************)
(* The normalized facade methods: SearchNormalized, SearchNewsNormalized   *)
(* and SearchImagesNormalized, from the HTTP response of the provider to   *)
(* the normalized result.                                                  *)
(***************************************************************************)
\* a body that is not JSON
NotJSON == [t |-> "invalid"]

\* json.Unmarshal(body, &result) with result a nil map[string]any: an
\* object fills the map, the literal null leaves the nil map and reports no
\* error, anything else is an error.  A nil map reads like an empty one.
Unmarshal(body) ==
  IF body.t = "obj" THEN [result |-> body, err |-> NilErr]
  ELSE IF body.t = "null" THEN [result |-> JObj(EmptyDoc), err |-> NilErr]
  ELSE [result |-> JObj(EmptyDoc), err |-> [kind |-> "unmarshal"]]

\* Engine.makeRequest of both adapters, from the response on
makeRequest(resp) ==
  IF resp.transport # "ok"
    THEN [res |-> <<>>, err |-> [kind |-> "requestFailed"]]
  ELSE IF resp.status # 200
    THEN [res |-> <<>>, err |-> [kind |-> "apiError"]]
  ELSE IF Unmarshal(resp.body).err # NilErr
    THEN [res |-> <<>>, err |-> Unmarshal(resp.body).err]
  ELSE [res |-> <<[isNil |-> FALSE, Data |-> Unmarshal(resp.body).result,
                   Raw |-> "raw"]>>,
        err |-> NilErr]

\* the operation constant each normalized method checks
OpOf(op) ==
  CASE op = "search" -> OpSearch
    [] op = "news" -> OpSearchNews
    [] op = "images" -> OpSearchImages

\* the error value of a Normalize* return
normalizeErr(r) ==
  IF r.err = "" THEN NilErr ELSE [kind |-> "normalize", msg |-> r.err]

\* NewNormalizer(c.GetName()) and the Normalize* call on the result
normalizeWith(c, op, res, q) ==
  LET r == Call(op, NewNormalizer(GetName(c)), res, q)
  IN [res |-> r.res, err |-> normalizeErr(r)]

(***************************************************************************)
(* One goroutine inside a normalized method, at the steps where it reads   *)
(* the engine of the client, while SetEngine is called on the same client. *)
(* task[1] is the call: its arguments, the response the provider sends,    *)
(* its step, the engine that served it, the result of the facade method    *)
(* and, when done, the name given to the normalizer and the return.        *)
(***************************************************************************)
Bodies ==
  {JNull, JArr(<<>>), JArr(<<ItemFull>>), JStr("text"), JNum(0), NotJSON,
   JObj(EmptyDoc),
   JObj(Doc(SerperKey, "organic", JArr(<<ItemFull, ItemPartial>>), TRUE)),
   JObj(Doc(SerpAPIKey, "organic", JArr(<<ItemFull, ItemPartial>>), TRUE))}

Responses ==
  {[transport |-> "ok", status |-> 200, body |-> b] : b \in Bodies}
  \cup {[transport |-> "ok", status |-> 500, body |-> b] :
          b \in {JStr("text"), JObj(EmptyDoc)}}
  \cup {[transport |-> "failed", status |-> 0, body |-> NotJSON]}

newPipe(op, q, resp) ==
  [op |-> op, query |-> q, resp |-> resp, step |-> "start", served |-> <<>>,
   result |-> <<>>, name |-> <<>>, ret |-> [res |-> <<>>, err |-> NilErr]]

Pipes ==
  {newPipe(op, q, resp) :
     op \in {"search", "news", "images"}, q \in Queries, resp \in Responses}

BothEngines == <<SerperEngine("key1"), SerpAPIEngine("key1")>>

PipeInit ==
  /\ normIdle
  /\ pool = <<>>
  /\ registry = registerAll(NewRegistry, BothEngines)
  /\ history = BothEngines
  /\ client \in {<<[engine |-> BothEngines[i]]>> : i \in 1..2}
  /\ call = NoCall
  /\ task \in {<<t>> : t \in Pipes}

\* c.checkSupport in the facade method
PipeCheck ==
  /\ task[1].step = "start"
  /\ LET err == checkSupport(client[1], OpOf(task[1].op))
     IN task' = IF err # NilErr
                  THEN [task EXCEPT ![1].step = "done", ![1].ret.err = err]
                  ELSE [task EXCEPT ![1].step = "checked"]
  /\ UNCHANGED <<pool, normVars, clientVars>>

\* c.engine.Search / SearchNews / SearchImages: the request and its decoding
PipeServe ==
  /\ task[1].step = "checked"
  /\ LET r == makeRequest(task[1].resp)
     IN task' = IF r.err # NilErr
                  THEN [task EXCEPT ![1].step = "done",
                                    ![1].served = <<client[1].engine>>,
                                    ![1].ret.err = r.err]
                  ELSE [task EXCEPT ![1].step = "served",
                                    ![1].served = <<client[1].engine>>,
                                    ![1].result = r.res]
  /\ UNCHANGED <<pool, normVars, clientVars>>

\* NewNormalizer(c.GetName()) and the Normalize* call
PipeNormalize ==
  /\ task[1].step = "served"
  /\ task' = [task EXCEPT
                ![1].step = "done",
                ![1].name = GetName(client[1]),
                ![1].ret = normalizeWith(client[1], task[1].op,
                                         task[1].result[1], task[1].query)]
  /\ UNCHANGED <<pool, normVars, clientVars>>

\* the next call of a normalized method
PipeAgain ==
  /\ task[1].step = "done"
  /\ \E t \in Pipes : task' = <<t>>
  /\ UNCHANGED <<pool, normVars, clientVars>>

\* SetEngine called by another goroutine
PipeSetEngine ==
  /\ \E name \in Names :
       /\ client' = <<SetEngine(client[1], registry, name).client>>
       /\ call' = [kind |-> "SetEngine", name |-> name,
                   err |-> SetEngine(client[1], registry, name).err]
  /\ UNCHANGED <<registry, history, pool, task, normVars>>

PipeNext ==
  \/ PipeCheck
  \/ PipeServe
  \/ PipeNormalize
  \/ PipeAgain
  \/ PipeSetEngine

PipeSpec == PipeInit /\ [][PipeNext]_vars

\* the call went through the normalizer
pipeNormalized == task[1].step = "done" /\ task[1].name # <<>>

\* C25: the name handed to the normalizer is the name of the engine that
\* served the search call, also when SetEngine runs in between
C25_NormalizedWithServingEngine ==
  pipeNormalized => task[1].name = EngineGetName(task[1].served[1])

\* C30: a response whose body is not a JSON object never gives a successful
\* normalized result: the method returns an error and a nil result
C30_NonObjectBodyRejected ==
  (task[1].step = "done" /\ task[1].resp.body.t # "obj") =>
    /\ task[1].ret.err # NilErr
    /\ task[1].ret.res = <<>>

\* C26: a constructed client always has an engine, one that was registered;
\* the engine changes only by a successful SetEngine, to the engine
\* registered under the name, and SetEngine with a name that is not
\* registered returns an error and changes neither the client nor the
\* registry
C26_ActiveEngineKept ==
  /\ [](client # <<>> =>
          \E i \in 1..Len(history) : client[1].engine = history[i])
  /\ [][/\ (call'.kind = "SetEngine" /\ call'.name \notin RegisteredNames)
             => /\ call'.err # NilErr
                /\ client' = client
                /\ registry' = registry
        /\ (call'.kind = "SetEngine" /\ call'.name \in RegisteredNames)
             => /\ call'.err = NilErr
                /\ client'[1].engine = Latest(call'.name)
                /\ registry' = registry
        /\ (client # <<>> /\ client' # client)
             => call'.kind = "SetEngine"
        /\ (client = <<>> /\ client' # <<>>)
             => /\ call'.kind = "NewWithOptions"
                /\ call'.err = NilErr]_vars

C26_Witness ==
  /\ call.kind = "SetEngine"
  /\ call.name = Serper
  /\ call.err # NilErr
  /\ client[1].engine.pkg = "serpapi"
  /\ RegisteredNames = {serper, serpapi}

\* C27: NewWithOptions with an engine name returns a client exactly when
\* the name is registered, and then with that engine; with no name it
\* returns a client exactly when an engine is registered, with an engine
\* GetDefaultEngine returns; otherwise it returns an error and no client
C27_ConstructionSucceeds ==
  call.kind = "NewWithOptions" =>
    /\ (call.err = NilErr) <=> (client # <<>>)
    /\ call.name # <<>> =>
         /\ (call.err = NilErr) <=> (call.name \in DOMAIN call.registered)
         /\ call.err = NilErr => client[1].engine = call.registered[call.name]
    /\ call.name = <<>> =>
         /\ (call.err = NilErr) <=> (DOMAIN call.registered # {})
         /\ call.err = NilErr =>
              \E r \in GetDefaultEngine(call.registered, call.env) :
                 r.engine = <<client[1].engine>>

C27_Witness ==
  /\ call.kind = "NewWithOptions"
  /\ call.name = serpapi
  /\ DOMAIN call.registered = {serper}
  /\ call.err # NilErr
  /\ client = <<>>

(***************************************************************************)
(* The MCP server: runServer up to the tool registration summary.          *)
(***************************************************************************)
\* mutant: webpage_scrape is also an entry of the list
allTools_WithScrape ==
  <<OpSearch, OpSearchNews, OpSearchImages, OpSearchVideos, OpSearchPlaces,
    OpSearchMaps, OpSearchReviews, OpSearchShopping, OpSearchScholar,
    OpSearchLens, OpSearchAutocomplete, OpScrapeWebpage>>

allTools ==
  <<OpSearch, OpSearchNews, OpSearchImages, OpSearchVideos, OpSearchPlaces,
    OpSearchMaps, OpSearchReviews, OpSearchShopping, OpSearchScholar,
    OpSearchLens, OpSearchAutocomplete>>

\* one tool: registered when the client supports it, skipped otherwise
addTool(c, lists, name) ==
  IF SupportsOperation(c, name)
    THEN [lists EXCEPT !.registeredTools = Append(@, name)]
    ELSE [lists EXCEPT !.skippedTools = Append(@, name)]

\* the loop over allTools from entry i on
RECURSIVE addTools(_, _, _)
addTools(c, lists, i) ==
  IF i > Len(allTools) THEN lists
  ELSE addTools(c, addTool(c, lists, allTools[i]), i + 1)

\* the two lists of the registration summary
runServer(c) ==
  addTool(c,
          addTools(c, [registeredTools |-> <<>>, skippedTools |-> <<>>], 1),
          OpScrapeWebpage)

CallRunServer ==
  /\ client # <<>>
  /\ call' = [kind |-> "runServer", ret |-> runServer(client[1])]
  /\ UNCHANGED <<registry, history, client, normVars, concVars>>

ServerNext ==
  \/ ClientNext
  \/ CallRunServer

ServerSpec == ClientInit /\ [][ServerNext]_vars

\* C23: runServer puts each of the twelve operation names in exactly one of
\* the registered and the skipped list, in the registered one exactly when
\* the client supports the operation: twelve tools with Serper, and with
\* SerpAPI the eleven other than google_search_lens
C23_ToolsRegistered ==
  call.kind = "runServer" =>
    /\ \A op \in Ops :
         /\ Occurrences(call.ret.registeredTools, op)
              + Occurrences(call.ret.skippedTools, op) = 1
         /\ Occurrences(call.ret.registeredTools, op) = 1
              <=> SupportsOperation(client[1], op)
    /\ client[1].engine.pkg = "serper" =>
         /\ Len(call.ret.registeredTools) = 12
         /\ call.ret.skippedTools = <<>>
    /\ client[1].engine.pkg = "serpapi" =>
         /\ Len(call.ret.registeredTools) = 11
         /\ call.ret.skippedTools = <<OpSearchLens>>

C23_Witness ==
  /\ call.kind = "runServer"
  /\ client[1].engine.pkg = "serpapi"
  /\ Len(call.ret.registeredTools) = 11
  /\ call.ret.skippedTools = <<OpSearchLens>>

(***************************************************************************)
(* Two goroutines reading one registry with Get, List and GetAll while no  *)
(* Register runs.  Get is one map read; List and GetAll range over the     *)
(* map, one key at a step, in an order the runtime chooses.  task[g] is    *)
(* the read of goroutine g: the keys still to visit, the slice or map      *)
(* built so far, and what it returned.                                     *)
(***************************************************************************)
\* mutant: the slice is made with the length of the map instead of its
\* capacity
listStart_Prefilled(reg) == [i \in 1..Cardinality(DOMAIN reg) |-> <<>>]

\* names := make([]string, 0, len(r.engines))
listStart(reg) == <<>>

\* names = append(names, name)
listStep(names, name) == Append(names, name)

\* result := make(map[string]Engine)
getAllStart == NewRegistry

\* result[name] = engine
getAllStep(res, name, engine) ==
  [n \in DOMAIN res \cup {name} |-> IF n = name THEN engine ELSE res[n]]

\* goroutine about to read
newRead(kind, name) ==
  [kind |-> kind, name |-> name, step |-> "ready", todo |-> {},
   names |-> <<>>, all |-> NewRegistry,
   got |-> [engine |-> <<>>, exists |-> FALSE]]

Reads ==
  {newRead("Get", name) : name \in Names}
  \cup {newRead("List", <<>>), newRead("GetAll", <<>>)}

\* the engines registered before the reads start
ReadEngines == {SerperEngine("key1"), SerpAPIEngine("key1"), NewEngine("key1")}

ReadInit ==
  /\ normIdle
  /\ pool = <<>>
  /\ client = <<>>
  /\ call = NoCall
  /\ history \in SeqsUpTo(ReadEngines, MaxRegs)
  /\ registry = registerAll(NewRegistry, history)
  /\ task \in {<<t1, t2>> : t1 \in Reads, t2 \in Reads}

ReadGet(g) ==
  /\ task[g].kind = "Get"
  /\ task[g].step = "ready"
  /\ task' = [task EXCEPT ![g].step = "done",
                          ![g].got = Get(registry, task[g].name)]
  /\ UNCHANGED <<pool, normVars, clientVars>>

\* the make before the range
ReadStart(g) ==
  /\ task[g].kind \in {"List", "GetAll"}
  /\ task[g].step = "ready"
  /\ task' = [task EXCEPT ![g].step = "ranging",
                          ![g].todo = DOMAIN registry,
                          ![g].names = listStart(registry),
                          ![g].all = getAllStart]
  /\ UNCHANGED <<pool, normVars, clientVars>>

\* one iteration of the range
ReadStep(g) ==
  /\ task[g].step = "ranging"
  /\ \E name \in task[g].todo :
       task' = [task EXCEPT
                  ![g].todo = @ \ {name},
                  ![g].names = IF task[g].kind = "List"
                                 THEN listStep(@, name) ELSE @,
                  ![g].all = IF task[g].kind = "GetAll"
                               THEN getAllStep(@, name, registry[name]) ELSE @]
  /\ UNCHANGED <<pool, normVars, clientVars>>

\* the return after the range
ReadReturn(g) ==
  /\ task[g].step = "ranging"
  /\ task[g].todo = {}
  /\ task' = [task EXCEPT ![g].step = "done"]
  /\ UNCHANGED <<pool, normVars, clientVars>>

\* the goroutine makes its next read
ReadAgain(g) ==
  /\ task[g].step = "done"
  /\ \E t \in Reads : task' = [task EXCEPT ![g] = t]
  /\ UNCHANGED <<pool, normVars, clientVars>>

ReadNext ==
  \/ \E g \in Goroutines : ReadGet(g)
  \/ \E g \in Goroutines : ReadStart(g)
  \/ \E g \in Goroutines : ReadStep(g)
  \/ \E g \in Goroutines : ReadReturn(g)
  \/ \E g \in Goroutines : ReadAgain(g)

ReadSpec == ReadInit /\ [][ReadNext]_vars

\* C22: no step of a read changes the registry, and whatever the other
\* goroutine is reading, a finished Get, List or GetAll returned what the
\* call returns when it runs alone on the registry
C22_ConcurrentReads ==
  /\ [][registry' = registry]_vars
  /\ [](\A g \in Goroutines :
          task[g].step = "done" =>
            /\ task[g].kind = "Get" => task[g].got = Get(registry, task[g].name)
            /\ task[g].kind = "List" => task[g].names \in List(registry)
            /\ task[g].kind = "GetAll" => task[g].all = registry)

C22_Witness ==
  /\ Cardinality(DOMAIN registry) = 3
  /\ task[1].kind = "List"
  /\ task[1].step = "done"
  /\ Len(task[1].names) = 3
  /\ task[1].names[1] = newengine
  /\ task[2].kind = "GetAll"
  /\ task[2].step = "ranging"
  /\ Cardinality(task[2].todo) = 1

====
